---- MODULE Spec2Model ----
(***************************************************************************)
(* 10kticketstat: the paginated download of a project's time entries from  *)
(* the 10K API (getTimeEntries), the ticket statistics computed from them  *)
(* (analyzeTimeEntries) and the command line driver (run), modelled from   *)
(* index.js.                                                               *)
(*                                                                         *)
(* A JavaScript string is a sequence of one-character strings.  A          *)
(* JavaScript value that may be undefined, a number, NaN, Infinity or a    *)
(* string is a record with a tag t.                                        *)
(***************************************************************************)
EXTENDS Integers, Sequences, FiniteSets, TLC

VARIABLES
    pc,                 \* where run() is suspended
    argv,               \* the parsed command line
    pages,              \* the server's chain of pages (page p is pages[p])
    page,               \* getTimeEntries' page parameter
    entryAccumulator,   \* getTimeEntries' entryAccumulator parameter
    accumulatedEntries, \* getTimeEntries' local accumulatedEntries
    outstanding,        \* HTTP requests issued and not yet answered
    requests,           \* history: every request issued, with how it ended
    response,           \* the response or error handled last
    waits,              \* history: every sleep() performed
    stdout,             \* console.log lines
    stderr,             \* console.error lines
    timeEntries,        \* what getTimeEntries returned to run()
    statistics,         \* run's statistics
    outputPath,         \* run's outputPath
    outputFile,         \* the CSV file on disk
    exitCode,           \* the process's exit status, undefined while it runs
    aggEntries,         \* analyzeTimeEntries alone: the timeEntries argument
    aggPattern,         \* analyzeTimeEntries alone: the ticketPattern argument
    aggIndex,           \* analyzeTimeEntries alone: entries reduced so far
    entryStatAccumulator, \* analyzeTimeEntries alone: the reducer's accumulator
    pureInput,          \* a function alone: its argument
    pureOutput          \* a function alone: its result, once applied

runVars == <<pc, argv, pages, page, entryAccumulator, accumulatedEntries,
             outstanding, requests, response, waits, stdout, stderr,
             timeEntries, statistics, outputPath, outputFile, exitCode>>

aggVars == <<aggEntries, aggPattern, aggIndex, entryStatAccumulator>>

pureVars == <<pureInput, pureOutput>>

vars == <<runVars, aggVars, pureVars>>

----------------------------------------------------------------------------
(* Bounds of the model *)

\* the longest chain of pages the server holds
MaxPages == 3

\* the most 429 responses the server gives in one run
MaxThrottle == 2

\* the longest entry sequence given to analyzeTimeEntries on its own
MaxEntries == 3

\* the largest period and the largest limit of an x-ratelimit-data header
\* given to parse10KResponseHeader on its own
MaxPeriod == 60

MaxLimit == 100

----------------------------------------------------------------------------
(* JavaScript values *)

Undefined == [t |-> "undefined"]

NaN == [t |-> "nan"]

Infinity == [t |-> "inf"]

Num(n) == [t |-> "num", n |-> n]

Str(s) == [t |-> "str", s |-> s]

UpperCase == {"A", "B", "C", "D", "E", "F", "G", "H", "I", "J", "K", "L", "M",
              "N", "O", "P", "Q", "R", "S", "T", "U", "V", "W", "X", "Y", "Z"}

Digits == {"0", "1", "2", "3", "4", "5", "6", "7", "8", "9"}

DigitValue(c) ==
    CASE c = "0" -> 0 [] c = "1" -> 1 [] c = "2" -> 2 [] c = "3" -> 3
      [] c = "4" -> 4 [] c = "5" -> 5 [] c = "6" -> 6 [] c = "7" -> 7
      [] c = "8" -> 8 [] c = "9" -> 9

Max(S) == CHOOSE x \in S : \A y \in S : y <= x

\* s starts with the string sep at index i
StartsAt(s, sep, i) ==
    /\ i + Len(sep) - 1 <= Len(s)
    /\ \A k \in 1..Len(sep) : s[i + k - 1] = sep[k]

RECURSIVE SplitFrom(_, _, _, _)
\* String.prototype.split(sep) for a non-empty sep: the pieces of s from
\* index i on, cur being the piece that is being read
SplitFrom(s, sep, i, cur) ==
    IF i > Len(s) THEN <<cur>>
    ELSE IF StartsAt(s, sep, i)
         THEN <<cur>> \o SplitFrom(s, sep, i + Len(sep), <<>>)
         ELSE SplitFrom(s, sep, i + 1, Append(cur, s[i]))

Split(s, sep) == SplitFrom(s, sep, 1, <<>>)

RECURSIVE TrimLeft(_)
TrimLeft(s) == IF s # <<>> /\ Head(s) = " " THEN TrimLeft(Tail(s)) ELSE s

RECURSIVE TrimRight(_)
TrimRight(s) ==
    IF s # <<>> /\ s[Len(s)] = " " THEN TrimRight(SubSeq(s, 1, Len(s) - 1)) ELSE s

RECURSIVE DecimalValue(_)
DecimalValue(s) ==
    IF s = <<>> THEN 0
    ELSE 10 * DecimalValue(SubSeq(s, 1, Len(s) - 1)) + DigitValue(s[Len(s)])

\* Number(v) for undefined and for strings of letters, decimal digits,
\* blanks and punctuation: blanks are trimmed, the empty string is 0, a
\* string of decimal digits is its value and everything else is NaN.
\* (Signs, fractions, exponents and radix prefixes are not in the alphabet
\* of the headers modelled.)
ToNumber(v) ==
    IF v.t = "num" \/ v.t = "nan" \/ v.t = "inf" THEN v
    ELSE IF v.t = "undefined" THEN NaN
    ELSE LET trimmed == TrimRight(TrimLeft(v.s))
         IN  IF \A k \in 1..Len(trimmed) : trimmed[k] \in Digits
             THEN Num(DecimalValue(trimmed))
             ELSE NaN

\* a * b of two JavaScript values with b a positive number
Times(a, b) ==
    LET x == ToNumber(a)
    IN  IF x.t = "num" THEN Num(x.n * b) ELSE x

\* a / b of two JavaScript values with a not negative; the quotient is
\* kept to whole milliseconds, which is all a timer reads of it
Divide(a, b) ==
    LET x == ToNumber(a)
        y == ToNumber(b)
    IN  IF x.t = "nan" \/ y.t = "nan" THEN NaN
        ELSE IF x.t = "inf" THEN (IF y.t = "inf" THEN NaN ELSE Infinity)
        ELSE IF y.t = "inf" THEN Num(0)
        ELSE IF y.n = 0 THEN (IF x.n = 0 THEN NaN ELSE Infinity)
        ELSE Num(x.n \div y.n)

\* a - b of two JavaScript values, neither infinite
Minus(a, b) ==
    LET x == ToNumber(a)
        y == ToNumber(b)
    IN  IF x.t = "num" /\ y.t = "num" THEN Num(x.n - y.n) ELSE NaN

----------------------------------------------------------------------------
(* Program constants *)

entriesPerChunk == 100

\* '[A-Z]+-\d+' : a regular expression is modelled as a sequence of
\* character classes, each taken once or (plus) one or more times
defaultTicketPattern ==
    << [class |-> UpperCase, plus |-> TRUE],
       [class |-> {"-"},     plus |-> FALSE],
       [class |-> Digits,    plus |-> TRUE] >>

\* the keys getTimeEntries reads of the parsed x-ratelimit-data header
KeyPeriod == <<"p", "e", "r", "i", "o", "d">>

KeyLimit == <<"l", "i", "m", "i", "t">>

----------------------------------------------------------------------------
(* sleep and parse10KResponseHeader *)

\* util.promisify(setTimeout)(ms): the milliseconds the timer runs.  Node
\* sets a delay that is NaN, below 1 or above 2^31 - 1 to 1.
sleep(ms) ==
    IF ms.t = "num" /\ ms.n >= 1 /\ ms.n <= 2147483647 THEN ms.n ELSE 1

\* .replace(/[{}:]/g, '')
StripBraces(s) == SelectSeq(s, LAMBDA c : c \notin {"{", "}", ":"})

\* the reducer of parse10KResponseHeader: [key, value] is the destructured
\* result of keyValueString.split('=>')
HeaderReducer(accumulator, keyValue) ==
    LET key == keyValue[1]
        value == IF Len(keyValue) >= 2 THEN Str(keyValue[2]) ELSE Undefined
        numberValue == ToNumber(value)
    IN  (key :> (IF numberValue.t = "nan" THEN value ELSE numberValue))
            @@ accumulator

RECURSIVE HeaderReduce(_, _)
HeaderReduce(accumulator, keyValues) ==
    IF keyValues = <<>> THEN accumulator
    ELSE HeaderReduce(HeaderReducer(accumulator, Head(keyValues)),
                      Tail(keyValues))

\* parse10KResponseHeader(responseHeader).  The header is a string or
\* undefined; undefined has no replace method, so the call throws a
\* TypeError.  The result is [threw |-> TRUE] or the object built.
parse10KResponseHeader(responseHeader) ==
    IF responseHeader.t # "str" THEN [threw |-> TRUE]
    ELSE LET pieces == Split(StripBraces(responseHeader.s), <<",", " ">>)
             keyValues == [k \in 1..Len(pieces) |-> Split(pieces[k], <<"=", ">">>)]
         IN  [threw |-> FALSE,
              value |-> HeaderReduce(<<>>, keyValues)]

\* rateInfo.key
Property(object, key) ==
    IF key \in DOMAIN object THEN object[key] ELSE Undefined

\* minimumRequestIntervalMs with period and limit exchanged
minimumRequestIntervalMsSwapped(rateInfo) ==
    Divide(Times(Property(rateInfo, KeyLimit), 1000),
           Property(rateInfo, KeyPeriod))

\* line 89: (rateInfo.period * 1000) / rateInfo.limit
minimumRequestIntervalMs(rateInfo) ==
    Divide(Times(Property(rateInfo, KeyPeriod), 1000),
           Property(rateInfo, KeyLimit))

----------------------------------------------------------------------------
(* analyzeTimeEntries *)

RECURSIVE RunLength(_, _, _)
\* how many characters of s from index i on are in class
RunLength(s, i, class) ==
    IF i <= Len(s) /\ s[i] \in class THEN 1 + RunLength(s, i + 1, class) ELSE 0

RECURSIVE MatchEnd(_, _, _, _)
\* the regular expression pattern from its k-th class on, matched at index
\* i of s: the index after the match, or 0 when there is none.  A class
\* with plus takes the longest run that lets the rest match (greedy, with
\* backtracking).
MatchEnd(pattern, k, s, i) ==
    IF k > Len(pattern) THEN i
    ELSE LET run == RunLength(s, i, pattern[k].class)
             takes == IF pattern[k].plus THEN 1..run
                      ELSE IF run >= 1 THEN {1} ELSE {}
             good == {n \in takes : MatchEnd(pattern, k + 1, s, i + n) # 0}
         IN  IF good = {} THEN 0
             ELSE MatchEnd(pattern, k + 1, s, i + Max(good))

RECURSIVE MatchFrom(_, _, _)
\* notes.match(ticketRegExp) with the g flag: every match, left to right,
\* the search resuming after each match
MatchFrom(pattern, s, i) ==
    IF i > Len(s) THEN <<>>
    ELSE LET e == MatchEnd(pattern, 1, s, i)
         IN  IF e = 0 THEN MatchFrom(pattern, s, i + 1)
             ELSE <<SubSeq(s, i, e - 1)>> \o MatchFrom(pattern, s, e)

\* timeEntry.notes || '' : an absent, null or empty notes is ''
NotesOf(timeEntry) ==
    IF timeEntry.notes.t = "str" THEN timeEntry.notes.s ELSE <<>>

\* notes.match(ticketRegExp) || []
ticketsMatchedInEntry(timeEntry, ticketPattern) ==
    MatchFrom(ticketPattern, NotesOf(timeEntry), 1)

\* entryStatAccumulator.find(entryStat => entryStat.ticket === ticket): the
\* index of the first such row, or 0
FindTicketStat(accumulator, ticket) ==
    IF \E k \in 1..Len(accumulator) : accumulator[k].ticket = ticket
    THEN CHOOSE k \in 1..Len(accumulator) :
            /\ accumulator[k].ticket = ticket
            /\ \A j \in 1..(k - 1) : accumulator[j].ticket # ticket
    ELSE 0

\* AddTicket with = for += : a row found takes the entry's hours
AddTicketOverwrites(accumulator, ticket, hours) ==
    LET existingTicketStat == FindTicketStat(accumulator, ticket)
    IN  IF existingTicketStat # 0
        THEN [accumulator EXCEPT ![existingTicketStat].hours = hours]
        ELSE Append(accumulator, [ticket |-> ticket, hours |-> hours])

\* AddTicket with unshift for push: a new row goes to the front
AddTicketUnshifts(accumulator, ticket, hours) ==
    LET existingTicketStat == FindTicketStat(accumulator, ticket)
    IN  IF existingTicketStat # 0
        THEN [accumulator EXCEPT ![existingTicketStat].hours = @ + hours]
        ELSE <<[ticket |-> ticket, hours |-> hours]>> \o accumulator

\* lines 142-155: the body of the forEach callback, for one matched ticket
AddTicket(accumulator, ticket, hours) ==
    LET existingTicketStat == FindTicketStat(accumulator, ticket)
    IN  IF existingTicketStat # 0
        THEN [accumulator EXCEPT ![existingTicketStat].hours = @ + hours]
        ELSE Append(accumulator, [ticket |-> ticket, hours |-> hours])

RECURSIVE ForEachTicket(_, _, _)
ForEachTicket(accumulator, tickets, hours) ==
    IF tickets = <<>> THEN accumulator
    ELSE ForEachTicket(AddTicket(accumulator, Head(tickets), hours),
                       Tail(tickets), hours)

timeEntryReducer(accumulator, timeEntry, ticketPattern) ==
    ForEachTicket(accumulator,
                  ticketsMatchedInEntry(timeEntry, ticketPattern),
                  timeEntry.hours)

RECURSIVE ReduceEntries(_, _, _)
ReduceEntries(accumulator, entries, ticketPattern) ==
    IF entries = <<>> THEN accumulator
    ELSE ReduceEntries(timeEntryReducer(accumulator, Head(entries), ticketPattern),
                       Tail(entries), ticketPattern)

\* timeEntries.reduce(timeEntryReducer, [])
analyzeTimeEntries(entries, ticketPattern) ==
    ReduceEntries(<<>>, entries, ticketPattern)

----------------------------------------------------------------------------
(* The server and the other inputs of a run *)

Null == [t |-> "null"]

NotesFixAB1 == <<"f", "i", "x", " ", "A", "B", "-", "1">>

NotesAB1AndC2 == <<"A", "B", "-", "1", " ", "a", "n", "d", " ", "C", "-", "2">>

NotesAB1Twice == <<"A", "B", "-", "1", " ", "A", "B", "-", "1">>

NotesC2ThenAB1 == <<"C", "-", "2", ",", "A", "B", "-", "1", "2">>

NotesNoTicket == <<"A", "B", "-", " ", "1", " ", "c", "-", "2">>

\* the bodies a page of the server may have
PageBodies ==
    { << [hours |-> 2, notes |-> Str(NotesFixAB1)] >>,
      << [hours |-> 3, notes |-> Str(NotesAB1AndC2)],
         [hours |-> 1, notes |-> Null] >> }

HeaderWellFormed ==
    <<"{", "p", "e", "r", "i", "o", "d", "=", ">", "6", "0", ",", " ",
      "l", "i", "m", "i", "t", "=", ">", "1", "0", "0", "}">>

HeaderGarbage == <<"n", "o", "n", "e">>

\* the response headers of a 200 response: with a well-formed, an
\* unparseable or no x-ratelimit-data
SuccessHeaders ==
    { ("x-ratelimit-data" :> Str(HeaderWellFormed)),
      ("x-ratelimit-data" :> Str(HeaderGarbage)),
      <<>> }

\* the response headers of a 429 response, as the HTTP library hands them
\* over: Node's http module lower-cases the names; a transport that keeps
\* the server's spelling is the other case
ThrottleHeaders ==
    { ("x-ratelimit-reset" :> Str(<<"5">>)),
      ("X-RateLimit-Reset" :> Str(<<"5">>)) }

\* what Date.now() may return when a 429 is handled: before and after the
\* reset instant of ThrottleHeaders
NowValues == {3, 7}

\* the statuses of the error responses other than 429
ErrorStatuses == {404, 500}

\* the errors axios.get rejects with that are not a 429
Failures ==
    { [name |-> "Error", hasResponse |-> FALSE, status |-> 0, headers |-> <<>>] }
    \cup { [name |-> "Error", hasResponse |-> TRUE, status |-> st, headers |-> <<>>] :
             st \in ErrorStatuses }

TypeError == [name |-> "TypeError", hasResponse |-> FALSE, status |-> 0, headers |-> <<>>]

\* the command lines: argv.v || argv.version, argv.h || argv.help and
\* argv._.length
ArgvSet ==
    { [version |-> FALSE, help |-> FALSE, positional |-> 3],
      [version |-> TRUE,  help |-> FALSE, positional |-> 0],
      [version |-> TRUE,  help |-> TRUE,  positional |-> 3],
      [version |-> FALSE, help |-> TRUE,  positional |-> 3],
      [version |-> FALSE, help |-> FALSE, positional |-> 0],
      [version |-> FALSE, help |-> FALSE, positional |-> 2],
      [version |-> FALSE, help |-> FALSE, positional |-> 4] }

RECURSIVE Chains(_)
\* the chains of n pages
Chains(n) ==
    IF n = 0 THEN {<<>>}
    ELSE {Append(c, b) : c \in Chains(n - 1), b \in PageBodies}

\* the link to the page after page p, or null on the last page
NextLink(chain, p) ==
    IF p < Len(chain)
    THEN [t |-> "url", query |-> ("page" :> Num(p + 1)) @@ ("per_page" :> Num(entriesPerChunk))]
    ELSE Null

\* the 200 response to a request for page p
SuccessResponse(chain, p, headers) ==
    [kind |-> "success",
     data |-> [paging |-> [page |-> Num(p), next |-> NextLink(chain, p)],
               data |-> chain[p]],
     headers |-> headers]

\* how many of the requests ended as result
Count(log, result) == Cardinality({k \in 1..Len(log) : log[k].result = result})

----------------------------------------------------------------------------
(* getTimeEntries *)

\* lines 51: page = '1' when the argument is undefined
DefaultPage(pageArgument) ==
    IF pageArgument.t = "undefined" THEN Num(1) ELSE pageArgument

\* ConcatEntries with the new page put in front
ConcatEntriesPrepends(accumulator, entries) == entries \o accumulator

\* line 77: entryAccumulator.concat(timeEntries)
ConcatEntries(accumulator, entries) == accumulator \o entries

\* IsLastPage with the return taken on every page
IsLastPageAlways(paging) == TRUE

\* line 82: !paging.next
IsLastPage(paging) == paging.next = Null

\* lines 92-93: querystring.parse(url.parse(paging.next).query).page
NextPageOf(next) == Property(next.query, "page")

\* Rethrows without the test of the status: only an error without a
\* response is rethrown
RethrowsTransportOnly(error) == ~error.hasResponse

\* Rethrows with the test lost: every error is rethrown
RethrowsAlways(error) == TRUE

\* line 95: the catch block rethrows every error but a 429 response
Rethrows(error) == ~error.hasResponse \/ error.status # 429

\* lines 102-104: resetUnixTime - nowUnixTime
msToReset(error, nowUnixTime) ==
    Minus(ToNumber(Property(error.headers, "X-RateLimit-Reset")), Num(nowUnixTime))

\* RetryPage going on to the next page
RetryPageSkips(currentPage) == Num(currentPage.n + 1)

\* RetryPage starting over at the first page
RetryPageRestarts(currentPage) == Num(1)

\* line 106: the page of the retry
RetryPage(currentPage) == currentPage

\* RetryAccumulator starting over with no entries
RetryAccumulatorDrops(accumulator) == <<>>

\* line 107: the accumulator of the retry
RetryAccumulator(accumulator) == accumulator

\* lines 54-75: a call of getTimeEntries up to its await of axios.get
CallGetTimeEntries(pageArgument, accumulatorArgument) ==
    /\ page' = DefaultPage(pageArgument)
    /\ entryAccumulator' = accumulatorArgument
    /\ outstanding' = outstanding + 1
    /\ requests' = Append(requests, [page |-> DefaultPage(pageArgument),
                                     result |-> "pending"])
    /\ pc' = "awaitResponse"

\* Answered with the request still counted as outstanding
AnsweredStillOutstanding(result) ==
    /\ outstanding' = outstanding
    /\ requests' = [requests EXCEPT ![Len(requests)].result = result]

\* the request that is outstanding ends as result
Answered(result) ==
    /\ outstanding' = outstanding - 1
    /\ requests' = [requests EXCEPT ![Len(requests)].result = result]

\* CatchInRun without process.exit(1): the error is printed and the
\* process ends with status 0
CatchInRunNoExit(error) ==
    /\ stderr' = Append(stderr, error)
    /\ exitCode' = Num(0)
    /\ pc' = "exited"

\* lines 232-235: the catch block of run
CatchInRun(error) ==
    /\ stderr' = Append(stderr, error)
    /\ exitCode' = Num(1)
    /\ pc' = "exited"

----------------------------------------------------------------------------
(* The run: one action for each stretch of code between two awaits *)

Init ==
    /\ pc = "start"
    /\ argv \in ArgvSet
    /\ pages \in UNION {Chains(n) : n \in 1..MaxPages}
    /\ page = Undefined
    /\ entryAccumulator = <<>>
    /\ accumulatedEntries = <<>>
    /\ outstanding = 0
    /\ requests = <<>>
    /\ response = [kind |-> "none"]
    /\ waits = <<>>
    /\ stdout = <<>>
    /\ stderr = <<>>
    /\ timeEntries = [returned |-> FALSE, value |-> <<>>]
    /\ statistics = <<>>
    /\ outputPath = ""
    /\ outputFile = [exists |-> FALSE, records |-> <<>>]
    /\ exitCode = Undefined
    /\ aggEntries = <<>>
    /\ aggPattern = defaultTicketPattern
    /\ aggIndex = 0
    /\ entryStatAccumulator = <<>>
    /\ pureInput = Undefined
    /\ pureOutput = Undefined

\* line 194: argv.v || argv.version
ShowsVersion(args) == args.version

\* ShowsUsage without the test of the number of arguments
ShowsUsageHelpOnly(args) == args.help

\* line 199: argv.h || argv.help || argv._.length !== requiredArgNames.length
ShowsUsage(args) == args.help \/ args.positional # 3

\* lines 192-220: run() from its start to the first await
Start ==
    /\ pc = "start"
    /\ IF ShowsVersion(argv)
       THEN /\ stdout' = Append(stdout, [msg |-> "version"])
            /\ exitCode' = Num(0)
            /\ pc' = "exited"
            /\ UNCHANGED <<page, entryAccumulator, outstanding, requests>>
       ELSE IF ShowsUsage(argv)
       THEN /\ stdout' = Append(stdout, [msg |-> "usage"])
            /\ exitCode' = Num(0)
            /\ pc' = "exited"
            /\ UNCHANGED <<page, entryAccumulator, outstanding, requests>>
       ELSE /\ CallGetTimeEntries(Undefined, <<>>)
            /\ UNCHANGED <<stdout, exitCode>>
    /\ UNCHANGED <<argv, pages, accumulatedEntries, response, waits, stderr,
                   timeEntries, statistics, outputPath, outputFile, aggVars, pureVars>>

\* ChunkLine numbering the chunks from 0
ChunkLineFromZero(paging) == [msg |-> "chunk", page |-> Num(paging.page.n - 1)]

\* line 79: `Downloaded data chunk #${paging.page} from 10K.`
ChunkLine(paging) == [msg |-> "chunk", page |-> paging.page]

\* lines 76-90 and 222-229: axios.get resolves.  On the last page
\* getTimeEntries returns and run goes on to its await of fs.stat;
\* otherwise getTimeEntries sleeps, unless the header cannot be parsed.
ResponseSuccess ==
    /\ pc = "awaitResponse"
    /\ page.t = "num" /\ page.n \in 1..Len(pages)
    /\ \E headers \in SuccessHeaders :
        LET resp == SuccessResponse(pages, page.n, headers)
            paging == resp.data.paging
            accumulated == ConcatEntries(entryAccumulator, resp.data.data)
            rateInfo == parse10KResponseHeader(Property(resp.headers, "x-ratelimit-data"))
        IN  /\ response' = resp
            /\ Answered("success")
            /\ accumulatedEntries' = accumulated
            /\ IF IsLastPage(paging)
               THEN /\ timeEntries' = [returned |-> TRUE, value |-> accumulated]
                    /\ stdout' = stdout \o <<ChunkLine(paging),
                                             [msg |-> "complete"]>>
                    /\ statistics' = analyzeTimeEntries(accumulated, defaultTicketPattern)
                    /\ pc' = "awaitStat"
                    /\ UNCHANGED <<waits, stderr, exitCode>>
               ELSE /\ stdout' = Append(stdout, ChunkLine(paging))
                    /\ UNCHANGED <<timeEntries, statistics>>
                    /\ IF rateInfo.threw
                       THEN /\ Rethrows(TypeError)
                            /\ CatchInRun(TypeError)
                            /\ UNCHANGED waits
                       ELSE /\ waits' = Append(waits,
                                   [kind |-> "advisory",
                                    ms |-> sleep(minimumRequestIntervalMs(rateInfo.value))])
                            /\ pc' = "sleeping"
                            /\ UNCHANGED <<stderr, exitCode>>
    /\ UNCHANGED <<argv, pages, page, entryAccumulator, outputPath, outputFile, aggVars, pureVars>>

\* lines 94-105: axios.get rejects with a 429 response
ResponseThrottled ==
    /\ pc = "awaitResponse"
    /\ Count(requests, "throttled") < MaxThrottle
    /\ \E headers \in ThrottleHeaders, nowUnixTime \in NowValues :
        LET error == [name |-> "Error", hasResponse |-> TRUE, status |-> 429,
                      headers |-> headers]
        IN  /\ response' = [kind |-> "error", error |-> error, now |-> nowUnixTime]
            /\ Answered("throttled")
            /\ IF Rethrows(error)
               THEN /\ CatchInRun(error)
                    /\ UNCHANGED waits
               ELSE /\ waits' = Append(waits,
                           [kind |-> "throttle",
                            ms |-> sleep(msToReset(error, nowUnixTime))])
                    /\ pc' = "sleeping"
                    /\ UNCHANGED <<stderr, exitCode>>
    /\ UNCHANGED <<argv, pages, page, entryAccumulator, accumulatedEntries, stdout,
                   timeEntries, statistics, outputPath, outputFile, aggVars, pureVars>>

\* lines 94-97 and 232-235: axios.get rejects with anything else
ResponseFailure ==
    /\ pc = "awaitResponse"
    /\ \E error \in Failures :
        /\ response' = [kind |-> "error", error |-> error, now |-> 0]
        /\ Answered("failure")
        /\ IF Rethrows(error)
           THEN /\ CatchInRun(error)
                /\ UNCHANGED waits
           ELSE /\ waits' = Append(waits,
                       [kind |-> "throttle", ms |-> sleep(msToReset(error, 0))])
                /\ pc' = "sleeping"
                /\ UNCHANGED <<stderr, exitCode>>
    /\ UNCHANGED <<argv, pages, page, entryAccumulator, accumulatedEntries, stdout,
                   timeEntries, statistics, outputPath, outputFile, aggVars, pureVars>>

\* lines 92-93, 106-107 and 112-120: the timer of sleep fires and
\* getTimeEntries calls itself
TimerFires ==
    /\ pc = "sleeping"
    /\ IF response.kind = "success"
       THEN CallGetTimeEntries(NextPageOf(response.data.paging.next), accumulatedEntries)
       ELSE CallGetTimeEntries(RetryPage(page), RetryAccumulator(entryAccumulator))
    /\ accumulatedEntries' = IF response.kind = "success" THEN accumulatedEntries
                             ELSE RetryAccumulator(entryAccumulator)
    /\ UNCHANGED <<argv, pages, response, waits, stdout, stderr, timeEntries,
                   statistics, outputPath, outputFile, exitCode, aggVars, pureVars>>

\* lines 162-176 and 230: fs.stat settles, resolveOutputPath returns and
\* saveStatisticsAsCsv starts to write
StatSettles ==
    /\ pc = "awaitStat"
    /\ \E stat \in {"directory", "file", "error"} :
        outputPath' = IF stat = "directory" THEN "userOutputPath/10kticketstat.csv"
                      ELSE "userOutputPath"
    /\ pc' = "awaitWrite"
    /\ UNCHANGED <<argv, pages, page, entryAccumulator, accumulatedEntries, outstanding,
                   requests, response, waits, stdout, stderr, timeEntries, statistics,
                   outputFile, exitCode, aggVars, pureVars>>

\* lines 123-133 and 231: writeRecords resolves
WriteSucceeds ==
    /\ pc = "awaitWrite"
    /\ outputFile' = [exists |-> TRUE, records |-> statistics]
    /\ stdout' = Append(stdout, [msg |-> "done", path |-> outputPath])
    /\ exitCode' = Num(0)
    /\ pc' = "exited"
    /\ UNCHANGED <<argv, pages, page, entryAccumulator, accumulatedEntries, outstanding,
                   requests, response, waits, stderr, timeEntries, statistics,
                   outputPath, aggVars, pureVars>>

\* lines 132 and 232-235: writeRecords rejects; the file was not created,
\* or was created and holds no record
WriteFails ==
    /\ pc = "awaitWrite"
    /\ \E created \in BOOLEAN : outputFile' = [exists |-> created, records |-> <<>>]
    /\ CatchInRun([name |-> "WriteError", hasResponse |-> FALSE, status |-> 0,
                   headers |-> <<>>])
    /\ UNCHANGED <<argv, pages, page, entryAccumulator, accumulatedEntries, outstanding,
                   requests, response, waits, stdout, timeEntries, statistics,
                   outputPath, aggVars, pureVars>>

Next ==
    \/ Start
    \/ ResponseSuccess
    \/ ResponseThrottled
    \/ ResponseFailure
    \/ TimerFires
    \/ StatSettles
    \/ WriteSucceeds
    \/ WriteFails

Spec == Init /\ [][Next]_vars

----------------------------------------------------------------------------
(* analyzeTimeEntries on its own: the entries and the pattern are drawn   *)
(* from bounded sets and the reducer is applied entry by entry            *)

\* '\d+'
digitsTicketPattern == << [class |-> Digits, plus |-> TRUE] >>

TicketPatterns == {defaultTicketPattern, digitsTicketPattern}

\* the notes of an entry: absent, empty, or a text
NotesSet ==
    { Null, Str(<<>>), Str(NotesFixAB1), Str(NotesAB1AndC2), Str(NotesAB1Twice),
      Str(NotesC2ThenAB1), Str(NotesNoTicket) }

\* the hours of an entry, in whole units
HoursSet == {0, 2}

EntrySet == [hours : HoursSet, notes : NotesSet]

RECURSIVE EntrySequences(_)
\* the entry sequences of length n
EntrySequences(n) ==
    IF n = 0 THEN {<<>>}
    ELSE {Append(q, e) : q \in EntrySequences(n - 1), e \in EntrySet}

InitAgg ==
    /\ pc = "analyze"
    /\ argv = [version |-> FALSE, help |-> FALSE, positional |-> 3]
    /\ pages = <<>>
    /\ page = Undefined
    /\ entryAccumulator = <<>>
    /\ accumulatedEntries = <<>>
    /\ outstanding = 0
    /\ requests = <<>>
    /\ response = [kind |-> "none"]
    /\ waits = <<>>
    /\ stdout = <<>>
    /\ stderr = <<>>
    /\ timeEntries = [returned |-> FALSE, value |-> <<>>]
    /\ statistics = <<>>
    /\ outputPath = ""
    /\ outputFile = [exists |-> FALSE, records |-> <<>>]
    /\ exitCode = Undefined
    /\ aggEntries \in UNION {EntrySequences(n) : n \in 0..MaxEntries}
    /\ aggPattern \in TicketPatterns
    /\ aggIndex = 0
    /\ entryStatAccumulator = <<>>
    /\ pureInput = Undefined
    /\ pureOutput = Undefined

\* lines 138-157: one call of timeEntryReducer by timeEntries.reduce
ReduceEntry ==
    /\ pc = "analyze"
    /\ aggIndex < Len(aggEntries)
    /\ aggIndex' = aggIndex + 1
    /\ entryStatAccumulator' =
           timeEntryReducer(entryStatAccumulator, aggEntries[aggIndex + 1], aggPattern)
    /\ UNCHANGED <<runVars, aggEntries, aggPattern, pureVars>>

NextAgg == ReduceEntry

SpecAgg == InitAgg /\ [][NextAgg]_vars

----------------------------------------------------------------------------
(* What analyzeTimeEntries is to compute, stated without its reducer *)

Range(f) == {f[k] : k \in DOMAIN f}

\* how often ticket occurs in a sequence of matches
Occurrences(ticket, matches) ==
    Cardinality({k \in DOMAIN matches : matches[k] = ticket})

RECURSIVE ExpectedHours(_, _, _, _)
\* the sum, over the first n entries, of the entry's hours times the
\* occurrences of ticket among the matches in the entry's notes
ExpectedHours(entries, n, ticket, ticketPattern) ==
    IF n = 0 THEN 0
    ELSE ExpectedHours(entries, n - 1, ticket, ticketPattern)
         + entries[n].hours
           * Occurrences(ticket, ticketsMatchedInEntry(entries[n], ticketPattern))

RECURSIVE MatchesOfFirst(_, _, _)
\* the matches of the first n entries, in the order of the entries and,
\* within an entry, of the notes
MatchesOfFirst(entries, n, ticketPattern) ==
    IF n = 0 THEN <<>>
    ELSE MatchesOfFirst(entries, n - 1, ticketPattern)
         \o ticketsMatchedInEntry(entries[n], ticketPattern)

\* the index of the first occurrence of ticket in matches
FirstOccurrence(ticket, matches) ==
    CHOOSE k \in DOMAIN matches :
        /\ matches[k] = ticket
        /\ \A j \in 1..(k - 1) : matches[j] # ticket

RowsOf(stats, ticket) == {k \in DOMAIN stats : stats[k].ticket = ticket}

\* C9: after any number of entries has been reduced, every row of the
\* statistics holds, for its ticket, the sum over the entries reduced of the
\* entry's hours times the number of occurrences of the ticket among the
\* matches in the entry's notes, and a ticket without a row has the sum 0
\* (entries with absent or empty notes or without a match add nothing).
C9_HoursAreOccurrenceWeightedSum ==
    pc = "analyze" =>
        LET seen == MatchesOfFirst(aggEntries, Len(aggEntries), aggPattern)
            tickets == Range(seen) \cup {entryStatAccumulator[k].ticket :
                                           k \in DOMAIN entryStatAccumulator}
        IN  \A ticket \in tickets :
                LET expected == ExpectedHours(aggEntries, aggIndex, ticket, aggPattern)
                IN  /\ RowsOf(entryStatAccumulator, ticket) = {} => expected = 0
                    /\ \A k \in RowsOf(entryStatAccumulator, ticket) :
                           entryStatAccumulator[k].hours = expected

\* C9 witness: all of two or more entries are reduced, one of them names a
\* ticket twice in its notes, another one names it too, and the ticket's row
\* holds 6 hours (2 + 2 for the entry naming it twice, 2 for the other).
C9_Witness ==
    /\ pc = "analyze"
    /\ aggIndex = Len(aggEntries)
    /\ \E k \in DOMAIN entryStatAccumulator, i, j \in DOMAIN aggEntries :
        /\ i # j
        /\ Occurrences(entryStatAccumulator[k].ticket,
                       ticketsMatchedInEntry(aggEntries[i], aggPattern)) = 2
        /\ Occurrences(entryStatAccumulator[k].ticket,
                       ticketsMatchedInEntry(aggEntries[j], aggPattern)) = 1
        /\ aggEntries[i].hours = 2
        /\ aggEntries[j].hours = 2
        /\ entryStatAccumulator[k].hours = 6

\* C10: after any number of entries has been reduced, no two rows of the
\* statistics have the same ticket, the tickets of the rows are exactly the
\* tickets matched in the entries reduced, and the rows are in the order
\* in which their tickets first occur in those entries.
C10_OneRowPerTicketInFirstSeenOrder ==
    pc = "analyze" =>
        LET seen == MatchesOfFirst(aggEntries, aggIndex, aggPattern)
            stats == entryStatAccumulator
        IN  /\ \A i, j \in DOMAIN stats : i # j => stats[i].ticket # stats[j].ticket
            /\ {stats[k].ticket : k \in DOMAIN stats} = Range(seen)
            /\ \A i, j \in DOMAIN stats :
                   i < j => FirstOccurrence(stats[i].ticket, seen)
                            < FirstOccurrence(stats[j].ticket, seen)

\* C10 witness: all entries are reduced, the statistics have three rows,
\* and the ticket of the first row is matched in two entries.
C10_Witness ==
    /\ pc = "analyze"
    /\ aggIndex = Len(aggEntries)
    /\ Len(entryStatAccumulator) = 3
    /\ \E i, j \in DOMAIN aggEntries :
        /\ i < j
        /\ entryStatAccumulator[1].ticket
               \in Range(ticketsMatchedInEntry(aggEntries[i], aggPattern))
        /\ entryStatAccumulator[1].ticket
               \in Range(ticketsMatchedInEntry(aggEntries[j], aggPattern))
        /\ entryStatAccumulator[2].ticket
               \in Range(ticketsMatchedInEntry(aggEntries[j], aggPattern))

----------------------------------------------------------------------------
(* Properties of the download and of the run *)

RECURSIVE ConcatPages(_, _)
\* the entries of the first n pages of the chain, in page order
ConcatPages(chain, n) ==
    IF n = 0 THEN <<>> ELSE ConcatPages(chain, n - 1) \o chain[n]

ThrottleWaits == {k \in DOMAIN waits : waits[k].kind = "throttle"}

AdvisoryWaits == {k \in DOMAIN waits : waits[k].kind = "advisory"}

\* the requests answered 200 for a page that has a next page
SuccessfulNonTerminal ==
    {k \in DOMAIN requests :
        requests[k].result = "success" /\ requests[k].page.n < Len(pages)}

\* C1: whatever requests were answered 429 on the way, what getTimeEntries
\* returns is the concatenation, in page order, of the entries of every page
\* of the chain, each page taken once.
C1_ReturnsEveryPageOnce ==
    timeEntries.returned => timeEntries.value = ConcatPages(pages, Len(pages))

\* C1 witness: getTimeEntries has returned the entries of a chain of three
\* pages after page 2 was answered 429 and then 200.
C1_Witness ==
    /\ timeEntries.returned
    /\ Len(pages) = 3
    /\ \E k \in DOMAIN requests :
        /\ k < Len(requests)
        /\ requests[k].page = Num(2)
        /\ requests[k].result = "throttled"
        /\ requests[k + 1].page = Num(2)
        /\ requests[k + 1].result = "success"

\* C2: a request that ends in a failure (no response, or a response with a
\* status other than 429) is the last request of the run: the run has ended
\* at once, every earlier request was followed by one sleep and none came
\* after, no request is outstanding, and getTimeEntries returned nothing.
C2_FailureAbortsAtOnce ==
    \A k \in DOMAIN requests :
        requests[k].result = "failure" =>
            /\ k = Len(requests)
            /\ pc = "exited"
            /\ outstanding = 0
            /\ Len(waits) = k - 1
            /\ ~timeEntries.returned
            /\ timeEntries.value = <<>>

\* C2 witness: page 2 of three ended in a failure after page 1 had been
\* downloaded with entries.
C2_Witness ==
    /\ Len(pages) = 3
    /\ Len(requests) = 2
    /\ requests[1].result = "success"
    /\ requests[2].page = Num(2)
    /\ requests[2].result = "failure"
    /\ entryAccumulator # <<>>

\* C3: the first request is for page 1; the request after a 429 on page p is
\* for page p again, the request after a 200 on page p is for page p + 1;
\* and a request for a page is issued only after every earlier page was
\* answered 200.
C3_PagesInOrderRetryFirst ==
    /\ requests # <<>> => requests[1].page = Num(1)
    /\ \A k \in DOMAIN requests :
        /\ k < Len(requests) /\ requests[k].result = "throttled"
               => requests[k + 1].page = requests[k].page
        /\ k < Len(requests) /\ requests[k].result = "success"
               => requests[k + 1].page = Num(requests[k].page.n + 1)
        /\ \A p \in 1..(requests[k].page.n - 1) :
               \E j \in 1..(k - 1) :
                   requests[j].page = Num(p) /\ requests[j].result = "success"

\* C3 witness: page 2 was answered 429, requested again and answered 200,
\* and page 3 has been requested.
C3_Witness ==
    \E k \in DOMAIN requests :
        /\ k + 2 <= Len(requests)
        /\ requests[k].page = Num(2)
        /\ requests[k].result = "throttled"
        /\ requests[k + 1].page = Num(2)
        /\ requests[k + 1].result = "success"
        /\ requests[k + 2].page = Num(3)

\* C4: at every moment of a run the number of throttling waits performed
\* equals the number of requests answered 429, and the number of advisory
\* delays performed equals the number of requests answered 200 for a page
\* that has a next page (so N - 1 advisory delays and no throttling wait
\* in a run over N pages that all succeed at once).
C4_WaitsMatchResults ==
    pc # "analyze" =>
        /\ Cardinality(ThrottleWaits) = Count(requests, "throttled")
        /\ Cardinality(AdvisoryWaits) = Cardinality(SuccessfulNonTerminal)

\* C5: a 429 response is never reported and never ends the run: after a 429
\* the run sleeps and the same page is requested again, for as many 429
\* responses in a row as the server gives.
C5_ThrottleNeverSurfaces ==
    /\ \A k \in DOMAIN stderr : ~(stderr[k].hasResponse /\ stderr[k].status = 429)
    /\ \A k \in DOMAIN requests :
        requests[k].result = "throttled" =>
            IF k = Len(requests)
            THEN pc = "sleeping" /\ exitCode = Undefined
            ELSE requests[k + 1].page = requests[k].page

\* C5 witness: a page was answered 429 twice in a row and then 200.
C5_Witness ==
    \E k \in DOMAIN requests :
        /\ k + 2 <= Len(requests)
        /\ requests[k].result = "throttled"
        /\ requests[k + 1].result = "throttled"
        /\ requests[k + 2].result = "success"
        /\ requests[k + 2].page = requests[k].page

\* C6: the statistics are computed and the output file is written only
\* after getTimeEntries has returned the entries of every page, the last
\* request being the last page answered 200; in a run in which a request
\* failed, or the download was given up otherwise, no output file exists.
C6_FileOnlyAfterFullDownload ==
    /\ (pc \in {"awaitStat", "awaitWrite"} \/ outputFile.exists \/ statistics # <<>>) =>
        /\ timeEntries.returned
        /\ timeEntries.value = ConcatPages(pages, Len(pages))
        /\ requests[Len(requests)] = [page |-> Num(Len(pages)), result |-> "success"]
        /\ Count(requests, "failure") = 0
    /\ (pc = "exited" /\ ~timeEntries.returned) => ~outputFile.exists

\* C6 witness: the output file holds the statistics of a chain of three
\* pages.
C6_Witness ==
    /\ Len(pages) = 3
    /\ outputFile.exists
    /\ outputFile.records # <<>>
    /\ outputFile.records = analyzeTimeEntries(ConcatPages(pages, 3), defaultTicketPattern)

\* C7: an error that is not a 429 (a request without a response, a response
\* with another error status, a failed write of the output file) is printed
\* to stderr and ends the process with status 1; a process that ended with
\* status 0 has had no failed request, has printed no error and, when it
\* was to download at all, has written the statistics of the entries
\* returned.
C7_ErrorsEndTheProcessNonZero ==
    /\ Count(requests, "failure") > 0 =>
        /\ pc = "exited"
        /\ exitCode = Num(1)
        /\ stderr = <<response.error>>
    /\ stderr # <<>> => pc = "exited" /\ exitCode = Num(1)
    /\ pc = "exited" /\ requests # <<>>
          /\ ~(outputFile.exists /\ outputFile.records = statistics /\ timeEntries.returned)
          => exitCode = Num(1) /\ Len(stderr) = 1
    /\ exitCode = Num(0) => pc = "exited" /\ stderr = <<>> /\ Count(requests, "failure") = 0

\* C7 witness: the write of the output file failed after a download of two
\* pages; the error is printed and the status is 1.
C7_Witness ==
    /\ pc = "exited"
    /\ exitCode = Num(1)
    /\ Len(pages) = 2
    /\ timeEntries.returned
    /\ Len(stderr) = 1
    /\ stderr[1].name = "WriteError"

\* C8: after a 200 response for a page that has a next page and whose
\* x-ratelimit-data header is missing or unparseable, the run goes on: the
\* process has not ended, the sleep performed last is an advisory delay as
\* short as sleep(0), and the entries accumulated are those of the pages up
\* to this one.
C8_BadHeaderIsNotFatal ==
    ( /\ response.kind = "success"
      /\ response.data.paging.next # Null
      /\ Property(response.headers, "x-ratelimit-data") # Str(HeaderWellFormed) ) =>
        /\ exitCode = Undefined
        /\ pc \in {"sleeping", "awaitResponse"}
        /\ waits # <<>>
        /\ waits[Len(waits)] = [kind |-> "advisory", ms |-> sleep(Num(0))]
        /\ accumulatedEntries = ConcatPages(pages, response.data.paging.page.n)

----------------------------------------------------------------------------
(* parse10KResponseHeader and the advisory delay on their own: the server *)
(* writes a header for a period and a limit, getTimeEntries parses it and *)
(* sleeps                                                                 *)

DigitChars == <<"0", "1", "2", "3", "4", "5", "6", "7", "8", "9">>

RECURSIVE ToDigits(_)
\* the decimal digits of a natural number, as the server and as a
\* template literal write it
ToDigits(n) ==
    IF n < 10 THEN <<DigitChars[n + 1]>>
    ELSE Append(ToDigits(n \div 10), DigitChars[(n % 10) + 1])

\* the header {period=>P, limit=>L}, or {:period=>P, :limit=>L} as a Ruby
\* hash with symbol keys prints
RateLimitHeader(period, limit, symbols) ==
    LET colon == IF symbols THEN <<":">> ELSE <<>>
    IN  <<"{">> \o colon \o KeyPeriod \o <<"=", ">">> \o ToDigits(period)
        \o <<",", " ">> \o colon \o KeyLimit \o <<"=", ">">> \o ToDigits(limit)
        \o <<"}">>

InitHeader ==
    /\ pc = "header"
    /\ argv = [version |-> FALSE, help |-> FALSE, positional |-> 3]
    /\ pages = <<>>
    /\ page = Undefined
    /\ entryAccumulator = <<>>
    /\ accumulatedEntries = <<>>
    /\ outstanding = 0
    /\ requests = <<>>
    /\ response = [kind |-> "none"]
    /\ waits = <<>>
    /\ stdout = <<>>
    /\ stderr = <<>>
    /\ timeEntries = [returned |-> FALSE, value |-> <<>>]
    /\ statistics = <<>>
    /\ outputPath = ""
    /\ outputFile = [exists |-> FALSE, records |-> <<>>]
    /\ exitCode = Undefined
    /\ aggEntries = <<>>
    /\ aggPattern = defaultTicketPattern
    /\ aggIndex = 0
    /\ entryStatAccumulator = <<>>
    /\ pureInput \in [period : 0..MaxPeriod, limit : 1..MaxLimit, symbols : BOOLEAN]
    /\ pureOutput = Undefined

\* lines 86-90: the header of a 200 response is parsed and the advisory
\* delay is slept
AdvisoryDelay ==
    /\ pc = "header"
    /\ pureOutput = Undefined
    /\ LET header == Str(RateLimitHeader(pureInput.period, pureInput.limit,
                                         pureInput.symbols))
           rateInfo == parse10KResponseHeader(header).value
       IN  pureOutput' = [rateInfo |-> rateInfo,
                          intervalMs |-> minimumRequestIntervalMs(rateInfo),
                          slept |-> sleep(minimumRequestIntervalMs(rateInfo))]
    /\ UNCHANGED <<runVars, aggVars, pureInput>>

NextHeader == AdvisoryDelay

SpecHeader == InitHeader /\ [][NextHeader]_vars

\* C11: for a header {period=>P, limit=>L} (with or without colons before
\* the keys) parse10KResponseHeader gives the numbers P for period and L for
\* limit and nothing else, the delay passed to sleep is (P * 1000) / L in
\* whole milliseconds, and the timer runs that long whenever it is at least
\* 1 ms; for {period=>60, limit=>100} the period is 60, the limit 100 and the
\* delay 600 ms.
C11_WellFormedHeaderGivesDelay ==
    (pc = "header" /\ pureOutput # Undefined) =>
        LET P == pureInput.period
            L == pureInput.limit
        IN  /\ DOMAIN pureOutput.rateInfo = {KeyPeriod, KeyLimit}
            /\ pureOutput.rateInfo[KeyPeriod] = Num(P)
            /\ pureOutput.rateInfo[KeyLimit] = Num(L)
            /\ pureOutput.intervalMs = Num((P * 1000) \div L)
            /\ (P * 1000) \div L >= 1 => pureOutput.slept = (P * 1000) \div L
            /\ (P = 60 /\ L = 100) => pureOutput.slept = 600

\* C11 witness: the header {period=>60, limit=>100} has been parsed and 600
\* ms have been slept.
C11_Witness ==
    /\ pc = "header"
    /\ pureInput = [period |-> 60, limit |-> 100, symbols |-> FALSE]
    /\ pureOutput # Undefined
    /\ pureOutput.rateInfo = (KeyPeriod :> Num(60)) @@ (KeyLimit :> Num(100))
    /\ pureOutput.slept = 600

----------------------------------------------------------------------------
(* More properties of the run *)

\* C12: a run started with -v/--version, with -h/--help or with a number
\* of positional arguments other than three issues no HTTP request, writes
\* no output file and prints no error; it ends at once with status 0,
\* having printed the version (when -v/--version is given) or else the
\* usage text, and nothing more.
C12_VersionAndUsageExitCleanly ==
    (pc \in {"start", "awaitResponse", "sleeping", "awaitStat", "awaitWrite", "exited"}
     /\ (argv.version \/ argv.help \/ argv.positional # 3)) =>
        /\ pc \in {"start", "exited"}
        /\ requests = <<>>
        /\ outstanding = 0
        /\ waits = <<>>
        /\ ~outputFile.exists
        /\ stderr = <<>>
        /\ pc = "start" => stdout = <<>> /\ exitCode = Undefined
        /\ pc = "exited" =>
            /\ exitCode = Num(0)
            /\ stdout = <<[msg |-> IF argv.version THEN "version" ELSE "usage"]>>

\* C12 witness: a run with two positional arguments and no option has
\* printed the usage text and ended.
C12_Witness ==
    /\ pc = "exited"
    /\ argv = [version |-> FALSE, help |-> FALSE, positional |-> 2]
    /\ stdout = <<[msg |-> "usage"]>>
    /\ exitCode = Num(0)

\* the reset header of a 429 response, whichever way its name is spelled
ResetHeaderOf(headers) ==
    IF "x-ratelimit-reset" \in DOMAIN headers THEN headers["x-ratelimit-reset"]
    ELSE Property(headers, "X-RateLimit-Reset")

\* C13: while the collector waits after a 429 response, the wait that is
\* in progress is the one of max(0, reset - now) milliseconds, where reset
\* is the instant given by the reset header of that response and now the
\* clock when it arrived (the timer runs its minimum for a wait of 0), so
\* the retry is not issued before the reset instant.
C13_ThrottleWaitsUntilReset ==
    (pc = "sleeping" /\ response.kind = "error") =>
        LET resetUnixTime == ToNumber(ResetHeaderOf(response.error.headers))
        IN  /\ resetUnixTime.t = "num"
            /\ waits # <<>>
            /\ waits[Len(waits)] =
                   [kind |-> "throttle",
                    ms |-> sleep(Num(Max({0, resetUnixTime.n - response.now})))]

\* C14: the step that receives a 429 response changes neither the page nor
\* the accumulator of the call, and the call of getTimeEntries that follows
\* the throttling wait requests the same page with the same accumulator as
\* the call that was throttled.
C14_ThrottledStepKeepsPageAndBuffer ==
    [][/\ (pc = "awaitResponse" /\ response'.kind = "error" /\ pc' = "sleeping") =>
            /\ page' = page
            /\ entryAccumulator' = entryAccumulator
       /\ (pc = "sleeping" /\ response.kind = "error") =>
            /\ pc' = "awaitResponse"
            /\ page' = page
            /\ entryAccumulator' = entryAccumulator
            /\ accumulatedEntries' = entryAccumulator
            /\ requests'[Len(requests')].page = requests[Len(requests)].page
            /\ requests[Len(requests)].page = page]_vars

\* C14 witness: the first request (page 1, no entries yet) was throttled and
\* repeated, and later page 2 was throttled and is requested again with the
\* entries of page 1 in the accumulator.
C14_Witness ==
    /\ pc = "awaitResponse"
    /\ Len(requests) = 4
    /\ requests[1] = [page |-> Num(1), result |-> "throttled"]
    /\ requests[2] = [page |-> Num(1), result |-> "success"]
    /\ requests[3] = [page |-> Num(2), result |-> "throttled"]
    /\ requests[4] = [page |-> Num(2), result |-> "pending"]
    /\ page = Num(2)
    /\ entryAccumulator = pages[1]
    /\ entryAccumulator # <<>>

IsChunkLine(line) == line.msg = "chunk"

\* a request that was answered 200
IsSuccess(request) == request.result = "success"

\* C17: the "Downloaded data chunk" lines printed so far are, in order, one
\* line for each request answered 200 so far, each with the number of the
\* page of that request, and none for a request answered 429 or failed;
\* "Download complete." is printed at most once, directly after the chunk
\* line of the last page of the chain, and no chunk line follows it.
C17_OneChunkLinePerSuccess ==
    pc \in {"start", "awaitResponse", "sleeping", "awaitStat", "awaitWrite", "exited"} =>
        LET chunks == SelectSeq(stdout, IsChunkLine)
            fetched == SelectSeq(requests, IsSuccess)
        IN  /\ Len(chunks) = Len(fetched)
            /\ \A k \in DOMAIN chunks : chunks[k].page = fetched[k].page
            /\ \A k \in DOMAIN stdout :
                   stdout[k].msg = "complete" =>
                       /\ k > 1
                       /\ stdout[k - 1] = [msg |-> "chunk", page |-> Num(Len(pages))]
                       /\ k - 1 = Len(chunks)
                       /\ timeEntries.returned
                       /\ \A j \in DOMAIN stdout : stdout[j].msg = "complete" => j = k

\* C17 witness: in a chain of two pages, page 2 was answered 429 and then
\* 200: two chunk lines for three requests, then "Download complete.".
C17_Witness ==
    /\ Len(pages) = 2
    /\ Len(requests) = 3
    /\ requests[1] = [page |-> Num(1), result |-> "success"]
    /\ requests[2] = [page |-> Num(2), result |-> "throttled"]
    /\ requests[3] = [page |-> Num(2), result |-> "success"]
    /\ Len(stdout) >= 3
    /\ stdout[1] = [msg |-> "chunk", page |-> Num(1)]
    /\ stdout[2] = [msg |-> "chunk", page |-> Num(2)]
    /\ stdout[3] = [msg |-> "complete"]

RECURSIVE ArrivedEntries(_, _)
\* the entries of the requests of log that were answered 200, in the order
\* of the answers, chain being what the server holds
ArrivedEntries(log, chain) ==
    IF log = <<>> THEN <<>>
    ELSE LET last == log[Len(log)]
         IN  ArrivedEntries(SubSeq(log, 1, Len(log) - 1), chain)
                 \o (IF last.result = "success" THEN chain[last.page.n] ELSE <<>>)

IsPrefix(s, t) == Len(s) <= Len(t) /\ SubSeq(t, 1, Len(s)) = s

\* the entries accumulated are those of the 200 responses so far, in order,
\* and the accumulator the current call was given is those of the 200
\* responses before its own request; both are prefixes of the whole chain
BufferIsArrivals ==
    /\ accumulatedEntries = ArrivedEntries(requests, pages)
    /\ requests = <<>> => entryAccumulator = <<>>
    /\ requests # <<>> =>
           entryAccumulator = ArrivedEntries(SubSeq(requests, 1, Len(requests) - 1), pages)
    /\ IsPrefix(entryAccumulator, accumulatedEntries)
    /\ IsPrefix(accumulatedEntries, ConcatPages(pages, Len(pages)))
    /\ timeEntries.returned => timeEntries.value = accumulatedEntries

\* C19: before and after every step of a run the accumulated entries are
\* the concatenation, in order of arrival, of the entries of the requests
\* answered 200 so far, hence a prefix of the entries of the whole chain;
\* and a step changes them only by appending all the entries of the page
\* of a 200 response that arrives in that step.
C19_BufferGrowsByWholePages ==
    [][/\ BufferIsArrivals
       /\ BufferIsArrivals'
       /\ accumulatedEntries' # accumulatedEntries =>
            /\ pc = "awaitResponse"
            /\ response'.kind = "success"
            /\ requests'[Len(requests')] = [page |-> page, result |-> "success"]
            /\ accumulatedEntries' = accumulatedEntries \o pages[page.n]
       /\ entryAccumulator' # entryAccumulator =>
            /\ pc = "sleeping"
            /\ response.kind = "success"
            /\ entryAccumulator' = accumulatedEntries]_vars

\* C19 witness: after page 1, a 429 on page 2 and then page 2 of a chain of
\* three pages, the entries accumulated are those of page 1 followed by
\* those of page 2, which differ, and page 3 is still to come.
C19_Witness ==
    /\ Len(pages) = 3
    /\ pc = "sleeping"
    /\ Len(requests) = 3
    /\ requests[2].result = "throttled"
    /\ requests[3] = [page |-> Num(2), result |-> "success"]
    /\ pages[1] # pages[2]
    /\ pages[1] # <<>> /\ pages[2] # <<>>
    /\ accumulatedEntries = pages[1] \o pages[2]
    /\ entryAccumulator = pages[1]

----------------------------------------------------------------------------
(* Termination of the download *)

\* The run under fairness: Node's event loop runs every callback that is
\* ready, so a request that is outstanding is answered, a timer that is set
\* fires and a file operation that was started settles.
SpecFair ==
    /\ Spec
    /\ WF_vars(Start)
    /\ WF_vars(ResponseFailure \/ ResponseThrottled \/ ResponseSuccess)
    /\ WF_vars(TimerFires)
    /\ WF_vars(StatSettles)
    /\ WF_vars(WriteSucceeds \/ WriteFails)

\* C15: in a run that downloads (three positional arguments, no -v, no -h)
\* over a finite chain of pages, where every page is throttled finitely
\* often, getTimeEntries eventually returns unless a request ends in a
\* failure; and for as long as the latest answer is a 429, the run has
\* neither returned nor ended and stays on the page that was throttled.
C15_DownloadTerminates ==
    /\ <>(\/ ShowsVersion(argv) \/ ShowsUsage(argv)
          \/ \E k \in DOMAIN requests : requests[k].result = "failure"
          \/ timeEntries.returned)
    /\ [](requests # <<>> /\ requests[Len(requests)].result = "throttled"
            => /\ pc = "sleeping"
               /\ ~timeEntries.returned
               /\ exitCode = Undefined
               /\ page = requests[Len(requests)].page)

----------------------------------------------------------------------------
(* isoTo10KDate and the parameters of the request *)

\* an ISO 8601 timestamp year-month-dayThour:00:00+offset:00 as a string
\* value; month is the calendar month 1..12, offset is in hours
Iso(year, month, day, hour, offset) ==
    [t |-> "iso", year |-> year, month |-> month, day |-> day,
     hour |-> hour, offset |-> offset]

\* ECMAScript DaysInYear
DaysInYear(y) ==
    IF y % 4 # 0 THEN 365
    ELSE IF y % 100 # 0 THEN 366
    ELSE IF y % 400 # 0 THEN 365
    ELSE 366

\* ECMAScript DayFromYear: the day number of 1 January of y, day 0 being
\* 1 January 1970
DayFromYear(y) ==
    365 * (y - 1970) + ((y - 1969) \div 4) - ((y - 1901) \div 100)
        + ((y - 1601) \div 400)

\* ECMAScript YearFromTime, for a day number
YearFromDay(day) ==
    CHOOSE y \in 1970..2200 : DayFromYear(y) <= day /\ day < DayFromYear(y + 1)

\* the day within the year at which month index m (0..11) starts, m = 12
\* being the end of the year
MonthStart(m, leap) ==
    CASE m = 0 -> 0
      [] m = 1 -> 31
      [] m = 2 -> 59 + leap
      [] m = 3 -> 90 + leap
      [] m = 4 -> 120 + leap
      [] m = 5 -> 151 + leap
      [] m = 6 -> 181 + leap
      [] m = 7 -> 212 + leap
      [] m = 8 -> 243 + leap
      [] m = 9 -> 273 + leap
      [] m = 10 -> 304 + leap
      [] m = 11 -> 334 + leap
      [] m = 12 -> 365 + leap

\* ECMAScript InLeapYear
InLeapYear(y) == IF DaysInYear(y) = 366 THEN 1 ELSE 0

\* ECMAScript MonthFromTime, for a day number: the month index 0..11
MonthFromDay(day) ==
    LET y == YearFromDay(day)
        within == day - DayFromYear(y)
    IN  CHOOSE m \in 0..11 :
            /\ MonthStart(m, InLeapYear(y)) <= within
            /\ within < MonthStart(m + 1, InLeapYear(y))

\* ECMAScript DateFromTime, for a day number: the day of the month 1..31
DateFromDay(day) ==
    LET y == YearFromDay(day)
    IN  day - DayFromYear(y) - MonthStart(MonthFromDay(day), InLeapYear(y)) + 1

\* ECMAScript MakeDay for a month index 0..11 and a day of the month
MakeDay(year, m, date) ==
    DayFromYear(year) + MonthStart(m, InLeapYear(year)) + date - 1

\* line 31: new Date(isoDateString).  The time value is kept in hours since
\* 1 January 1970 00:00 UTC (the timestamps modelled are whole hours): the
\* local time of the timestamp less its offset.  A string that is not a
\* timestamp gives an invalid date.
NewDate(isoDateString) ==
    IF isoDateString.t = "iso"
    THEN Num((MakeDay(isoDateString.year, isoDateString.month - 1, isoDateString.day) * 24
              + isoDateString.hour) - isoDateString.offset)
    ELSE NaN

\* `${n}` of a number value
NumberToString(v) == IF v.t = "num" THEN ToDigits(v.n) ELSE <<"N", "a", "N">>

\* getUTCFullYear, getUTCMonth and getUTCDate of a date
getUTCFullYear(date) == IF date.t = "num" THEN Num(YearFromDay(date.n \div 24)) ELSE NaN

getUTCMonth(date) == IF date.t = "num" THEN Num(MonthFromDay(date.n \div 24)) ELSE NaN

getUTCDate(date) == IF date.t = "num" THEN Num(DateFromDay(date.n \div 24)) ELSE NaN

\* isoTo10KDate with the month as a calendar month number
isoTo10KDateCalendarMonth(isoDateString) ==
    LET date == NewDate(isoDateString)
        month == getUTCMonth(date)
    IN  Str(NumberToString(getUTCFullYear(date)) \o <<"-">>
            \o NumberToString(IF month.t = "num" THEN Num(month.n + 1) ELSE month)
            \o <<"-">> \o NumberToString(getUTCDate(date)))

\* lines 30-33
isoTo10KDate(isoDateString) ==
    LET date == NewDate(isoDateString)
    IN  Str(NumberToString(getUTCFullYear(date)) \o <<"-">>
            \o NumberToString(getUTCMonth(date)) \o <<"-">>
            \o NumberToString(getUTCDate(date)))

\* a value in a condition: undefined and the empty string are false
Truthy(v) == v.t # "undefined" /\ ~(v.t = "str" /\ v.s = <<>>)

\* lines 56-68: the params of the request (axios leaves a parameter whose
\* value is undefined out of the URL)
RequestParams(startIsoDate, endIsoDate, pageArgument) ==
    [from |-> IF Truthy(startIsoDate) THEN isoTo10KDate(startIsoDate) ELSE Undefined,
     to |-> IF Truthy(endIsoDate) THEN isoTo10KDate(endIsoDate) ELSE Undefined,
     page |-> DefaultPage(pageArgument),
     per_page |-> Num(entriesPerChunk)]

\* the calendar: the number of days of month m (1..12) of year y
DaysInMonth(y, m) ==
    IF m = 2 THEN (IF (y % 4 = 0 /\ y % 100 # 0) \/ y % 400 = 0 THEN 29 ELSE 28)
    ELSE IF m \in {4, 6, 9, 11} THEN 30
    ELSE 31

\* the years, hours of the day and offsets from UTC of the timestamps
\* given as --start-iso-date and --end-iso-date
IsoYears == {2019, 2020, 2100}

IsoHours == {0, 23}

IsoOffsets == {-2, 0, 2}

IsoDates ==
    UNION { { Iso(y, m, d, h, o) : d \in 1..DaysInMonth(y, m), h \in IsoHours,
                                   o \in IsoOffsets } :
            y \in IsoYears, m \in 1..12 }

\* startIsoDate: a timestamp, nothing, the empty string, or a string that
\* is no timestamp
StartIsoDates == IsoDates \cup {Undefined, Str(<<>>), Str(<<"x">>)}

\* endIsoDate: nothing, or one of two timestamps
EndIsoDates == {Undefined, Iso(2020, 12, 31, 23, -2), Iso(2020, 3, 1, 0, 2)}

InitDate ==
    /\ pc = "params"
    /\ argv = [version |-> FALSE, help |-> FALSE, positional |-> 3]
    /\ pages = <<>>
    /\ page = Undefined
    /\ entryAccumulator = <<>>
    /\ accumulatedEntries = <<>>
    /\ outstanding = 0
    /\ requests = <<>>
    /\ response = [kind |-> "none"]
    /\ waits = <<>>
    /\ stdout = <<>>
    /\ stderr = <<>>
    /\ timeEntries = [returned |-> FALSE, value |-> <<>>]
    /\ statistics = <<>>
    /\ outputPath = ""
    /\ outputFile = [exists |-> FALSE, records |-> <<>>]
    /\ exitCode = Undefined
    /\ aggEntries = <<>>
    /\ aggPattern = defaultTicketPattern
    /\ aggIndex = 0
    /\ entryStatAccumulator = <<>>
    /\ pureInput \in [startIsoDate : StartIsoDates, endIsoDate : EndIsoDates]
    /\ pureOutput = Undefined

\* lines 56-68: getTimeEntries builds the params of its request
BuildParams ==
    /\ pc = "params"
    /\ pureOutput = Undefined
    /\ pureOutput' = RequestParams(pureInput.startIsoDate, pureInput.endIsoDate, page)
    /\ UNCHANGED <<runVars, aggVars, pureInput>>

NextDate == BuildParams

SpecDate == InitDate /\ [][NextDate]_vars

\* the UTC calendar date (calendar month 1..12) of a timestamp, by the
\* calendar: the day before when the offset takes the hour below 0, the day
\* after when it takes the hour to 24 or more
UtcCalendarDate(iso) ==
    LET y == iso.year
        m == iso.month
        d == iso.day
        h == iso.hour - iso.offset
    IN  IF h < 0
        THEN IF d > 1 THEN [year |-> y, month |-> m, day |-> d - 1]
             ELSE IF m > 1 THEN [year |-> y, month |-> m - 1, day |-> DaysInMonth(y, m - 1)]
             ELSE [year |-> y - 1, month |-> 12, day |-> 31]
        ELSE IF h >= 24
        THEN IF d < DaysInMonth(y, m) THEN [year |-> y, month |-> m, day |-> d + 1]
             ELSE IF m < 12 THEN [year |-> y, month |-> m + 1, day |-> 1]
             ELSE [year |-> y + 1, month |-> 1, day |-> 1]
        ELSE [year |-> y, month |-> m, day |-> d]

\* a string of decimal digits without zero padding
Unpadded(s) == /\ s # <<>>
               /\ \A k \in DOMAIN s : s[k] \in Digits
               /\ Len(s) > 1 => s[1] # "0"

\* parameter is what C18 says of isoDate: left out when no date is given,
\* else year-monthIndex-day of the UTC date, three unpadded numbers
IsDateParameterOf(parameter, isoDate) ==
    /\ isoDate \in {Undefined, Str(<<>>)} => parameter = Undefined
    /\ isoDate.t = "iso" =>
        /\ parameter.t = "str"
        /\ LET parts == Split(parameter.s, <<"-">>)
               utc == UtcCalendarDate(isoDate)
           IN  /\ Len(parts) = 3
               /\ \A k \in 1..3 : Unpadded(parts[k])
               /\ DecimalValue(parts[1]) = utc.year
               /\ DecimalValue(parts[2]) = utc.month - 1
               /\ DecimalValue(parts[3]) = utc.day

\* C18: the from and to parameters of the request are the UTC year, the
\* zero-based UTC month index (0 for January, 11 for December) and the UTC
\* day of the month of the start and end timestamps, as decimal numbers
\* without zero padding joined by hyphens; a parameter whose date is not
\* given is left out.
C18_DateParameters ==
    (pc = "params" /\ pureOutput # Undefined) =>
        /\ IsDateParameterOf(pureOutput.from, pureInput.startIsoDate)
        /\ IsDateParameterOf(pureOutput.to, pureInput.endIsoDate)

\* C18 witness: 1 January 2020 00:00 at UTC+2 is 31 December 2019 in UTC
\* and gives from=2019-11-31; no end date, no to parameter.
C18_Witness ==
    /\ pc = "params"
    /\ pureInput = [startIsoDate |-> Iso(2020, 1, 1, 0, 2), endIsoDate |-> Undefined]
    /\ pureOutput # Undefined
    /\ pureOutput.from = Str(<<"2", "0", "1", "9", "-", "1", "1", "-", "3", "1">>)
    /\ pureOutput.to = Undefined

====
